---- MODULE Spec2Model ----
(***************************************************************************)
(* A model of src/main.py: the chunk loop of                               *)
(* SlackNotifier._format_mixed_content_message, and VocabBot's word bank   *)
(* (check_duplicate, add_to_sheet, get_random_words) and generate_exam.    *)
(*                                                                         *)
(* A Python str is a sequence of one-character strings, a list is a        *)
(* sequence, a dict is a record. Each part of the program has its own      *)
(* specification; the variables of the other parts stay idle in it.        *)
(***************************************************************************)
EXTENDS Integers, Sequences, FiniteSets, TLC

VARIABLES
    \* _format_mixed_content_message, lines 581-591
    text,         \* full_text as built at line 581, before the loop
    maxSize,      \* the chunk limit (the literal 2500 of lines 585-588)
    full_text,    \* the text that remains to be split
    chunks,       \* the list of chunks
    cpc,          \* "loop": at the while test of line 585; "done": after line 591
    \* VocabBot
    sheet,        \* self.worksheet: the rows of the sheet, the header row first
    \* the last add_to_sheet call of the single writer
    word_info,    \* its argument
    io,           \* what each worksheet call it made did: "ok" or "raise"
    ret,          \* what it returned
    result_message, \* what handle_vocab_query then said (lines 723-724)
    \* two handle_vocab_query listeners in add_to_sheet at once, per listener
    pc,           \* "idle", "check", "count", "insert", "done"
    winfo,        \* the word_info it was called with
    next_row,     \* its local next_row (line 1187)
    result,       \* what its add_to_sheet returned
    pio,          \* what each worksheet call it made did
    \* the last get_random_words call
    count,        \* its argument, -1 before any call
    words_read,   \* whether worksheet.get_all_values() answered
    sample,       \* the list it returned
    \* the last generate_exam call
    req,          \* its arguments
    words,        \* the list get_random_words gave it (line 929)
    alloc,        \* its five word lists (lines 937-946)
    exam_result,  \* the dict it returned
    \* the last "시험지" / "test paper" command, handle_exam_generation
    matches,      \* context['matches']: the six groups of the pattern of line 730
    said,         \* the messages said to the requester, in order
    uploads,      \* the files uploaded to the channel, in order
    \* SlackNotifier.send_daily_materials, lines 504-545
    mixed_messages, \* the messages _format_mixed_content_message returned
    next_message, \* the index of the message the for loop of line 517 is at
    calls,        \* the chat_postMessage calls made so far: message and outcome
    results,      \* the results dict (line 507); at "done", the dict returned
    spc           \* "mixed": in the loop; "commentary": at line 528; "done"

chunkVars == <<text, maxSize, full_text, chunks, cpc>>
addVars == <<word_info, io, ret, result_message>>
concVars == <<pc, winfo, next_row, result, pio>>
sampleVars == <<count, words_read, sample>>
examVars == <<req, words, alloc, exam_result>>
handlerVars == <<matches, said, uploads>>
sendVars == <<mixed_messages, next_message, calls, results, spc>>
vars ==
    <<text, maxSize, full_text, chunks, cpc, sheet, word_info, io, ret,
      result_message,
      pc, winfo, next_row, result, pio, count, words_read, sample,
      req, words, alloc, exam_result, matches, said, uploads,
      mixed_messages, next_message, calls, results, spc>>

\* ---------------------------------------------------------------- bounds

MaxLen == 7       \* longest text handed to the chunk loop
MaxSize == 4      \* largest chunk limit tried
MaxBank == 3      \* most entries of the word bank of the single writer
MaxCount == 4     \* largest count handed to get_random_words on its own
MaxRot == 2       \* the orders random.sample is tried in start at offsets 0..MaxRot
MaxExamBank == 12 \* most entries of the word bank an exam is drawn from
MaxSynonyms == 2  \* most synonyms of the word stored and read back
MaxSynLen == 2    \* most characters of one such synonym
MaxMessages == 6  \* most mixed-content messages of one send_daily_materials call
MaxElapsed == 2   \* most seconds between the two clock readings of one exam

\* ---------------------------------------------------------------- program constants

MinTotal == 10    \* line 749: the smallest total_count a command may ask for
MaxTotal == 100   \* line 749: the largest
MinWords == 10    \* line 930: fewer words than this and no exam is made
LargeExam == 30   \* line 938: from this total_count on, the tail stops at total_count
SecondsPerMinute == 60 \* lines 980, 1059: %M is the finest field of the timestamp
FixedCount == 5   \* lines 981, 1009, 1021: the count written for sections 3 and 4
RenderCap == 5    \* lines 1014, 1034, 1087, 1105: [:5], most items of sections 3 and 4

\* The loop of lines 585-590 can append without end: the model stops it here.
MaxChunks == MaxLen + 2

\* ---------------------------------------------------------------- helpers

Min(a, b) == IF a < b THEN a ELSE b

SetMax(S) == CHOOSE x \in S : \A y \in S : y <= x

SetMin(S) == CHOOSE x \in S : \A y \in S : x <= y

\* Python's s[a:b] for 0 <= a, 0 <= b: both ends clamp to len(s).
Slice(s, a, b) ==
    LET hi == Min(b, Len(s))
    IN  IF a >= hi THEN <<>> ELSE [i \in 1..(hi - a) |-> s[a + i]]

\* Python's s[a:] for 0 <= a.
SliceFrom(s, a) == Slice(s, a, Len(s))

RECURSIVE Concat(_)
Concat(ss) == IF ss = <<>> THEN <<>> ELSE Head(ss) \o Concat(Tail(ss))

\* ---------------------------------------------------------------- chunking

NL == "\n"
Chars == {NL, "a"}

Texts == UNION {[1..n -> Chars] : n \in 0..MaxLen}

\* A bug RFind could have: find, the lowest index, in place of rfind.
RFindFirst(s, end) ==
    LET lim  == Min(end, Len(s))
        hits == {p \in 0..(lim - 2) : s[p + 1] = NL /\ s[p + 2] = NL}
    IN  IF hits = {} THEN -1 ELSE SetMin(hits)

\* full_text.rfind("\n\n", 0, end): the highest index p at which "\n\n" occurs
\* wholly inside full_text[0:end], or -1.
RFind(s, end) ==
    LET lim  == Min(end, Len(s))
        hits == {p \in 0..(lim - 2) : s[p + 1] = NL /\ s[p + 2] = NL}
    IN  IF hits = {} THEN -1 ELSE SetMax(hits)

\* A bug SplitPos could have: rfind without its end argument.
SplitPosUnbounded(s, m) ==
    LET split_pos == RFind(s, Len(s))
    IN  IF split_pos = -1 THEN m ELSE split_pos

\* lines 586-588
SplitPos(s, m) ==
    LET split_pos == RFind(s, m)
    IN  IF split_pos = -1 THEN m ELSE split_pos

\* line 589: full_text[:split_pos]
ChunkOf(s, split_pos) == Slice(s, 0, split_pos)

\* A bug RestOf could have: the rest starts after the blank line.
RestOfAfterBreak(s, split_pos) == SliceFrom(s, split_pos + 2)

\* line 590: full_text[split_pos:]
RestOf(s, split_pos) == SliceFrom(s, split_pos)

\* ---------------------------------------------------------------- word bank

\* str.lower(), one character at a time
LowerChar(c) ==
    CASE c = "A" -> "a"
      [] c = "B" -> "b"
      [] OTHER -> c

Lower(w) == [i \in DOMAIN w |-> LowerChar(w[i])]

\* The words looked up: "ab", "Ab", "AB" and "b".
Words == {<<"a", "b">>, <<"A", "b">>, <<"A", "B">>, <<"b">>}

\* The synonym lists of a word_info: none, or "x" and "y".
SynonymLists == {<<>>, << <<"x">>, <<"y">> >>}

\* What get_word_definition hands to add_to_sheet (the fields add_to_sheet reads).
WordInfos ==
    [word : Words, korean_meaning : {<<"m">>}, synonyms : SynonymLists]

\* The sheet is provisioned with a header row; its first cell is no looked-up word.
HeaderRow == << <<"w">>, <<"m">>, <<"s">> >>

\* ', '.join(synonyms)
RECURSIVE Join(_)
Join(synonyms) ==
    IF synonyms = <<>> THEN <<>>
    ELSE IF Len(synonyms) = 1 THEN Head(synonyms)
    ELSE Head(synonyms) \o <<",", " ">> \o Join(Tail(synonyms))

\* worksheet.col_values(1)
ColValues1(s) == [i \in 1..Len(s) |-> s[i][1]]

\* A bug InsertRow could have: the row at index is overwritten.
InsertRowOver(s, values, index) ==
    SubSeq(s, 1, index - 1) \o <<values>> \o SubSeq(s, index + 1, Len(s))

\* worksheet.insert_row(values, index), line 1198: the rows from index on move
\* down by one.
InsertRow(s, values, index) ==
    SubSeq(s, 1, index - 1) \o <<values>> \o SubSeq(s, index, Len(s))

\* lines 1167-1172: the scan of check_duplicate over the cells it read
ScanDuplicate(cell_list, word) ==
    \E i \in 1..Len(cell_list) : Lower(cell_list[i]) = Lower(word)

\* check_duplicate, lines 1162-1176. raised: worksheet.col_values(1) raised, and
\* the except clause of lines 1174-1176 answers False.
check_duplicate(s, word, raised) ==
    IF raised THEN FALSE ELSE ScanDuplicate(ColValues1(s), word)

\* line 1187
NextRow(s) == Len(ColValues1(s)) + 1

\* lines 1189-1196
RowData(info) ==
    << info.word,
       info.korean_meaning,
       IF info.synonyms # <<>> THEN Join(info.synonyms) ELSE <<>> >>

Outcome(raised) == IF raised THEN "raise" ELSE "ok"

\* add_to_sheet, lines 1178-1205. o[1], o[2], o[3]: whether the col_values of
\* check_duplicate, the col_values of line 1187 and the insert_row of line 1198
\* raise. The result is the sheet afterwards, the value returned, and what the
\* worksheet calls that were made did.
add_to_sheet(s, info, o) ==
    IF check_duplicate(s, info.word, o[1])
    THEN [sheet |-> s, ret |-> FALSE, io |-> <<Outcome(o[1])>>]
    ELSE IF o[2]
    THEN [sheet |-> s, ret |-> FALSE, io |-> <<Outcome(o[1]), "raise">>]
    ELSE IF o[3]
    THEN [sheet |-> s, ret |-> FALSE, io |-> <<Outcome(o[1]), "ok", "raise">>]
    ELSE [sheet |-> InsertRow(s, RowData(info), NextRow(s)),
          ret |-> TRUE,
          io |-> <<Outcome(o[1]), "ok", "ok">>]

\* The word bank: the rows under the header.
Bank(s) == SubSeq(s, 2, Len(s))

\* exists(word): some entry of the bank is the word, ignoring case.
InBank(s, word) ==
    \E i \in 2..Len(s) : Lower(s[i][1]) = Lower(word)

\* Two entries of the bank hold the same word, ignoring case.
HasDuplicate(s) ==
    \E i, j \in 2..Len(s) : i < j /\ Lower(s[i][1]) = Lower(s[j][1])

\* format_vocab_response, lines 1207-1233: the word of the first line and the
\* footer of lines 1226-1229, "saved" for the text of line 1227 and
\* "already saved" for the text of line 1229.
format_vocab_response(info, save_success) ==
    [word |-> info.word,
     footer |-> IF save_success THEN "saved" ELSE "already saved"]

\* ---------------------------------------------------------------- get_random_words

\* str.split(', '): the pieces between the occurrences of ", ", left to right
RECURSIVE Split(_)
Split(t) ==
    LET hits == {p \in 1..(Len(t) - 1) : t[p] = "," /\ t[p + 1] = " "}
    IN  IF hits = {} THEN <<t>>
        ELSE LET p == SetMin(hits)
             IN  <<SubSeq(t, 1, p - 1)>> \o Split(SubSeq(t, p + 2, Len(t)))

\* lines 912-916
WordData(row) ==
    [word |-> row[1],
     meaning |-> row[2],
     synonyms |-> IF row[3] # <<>> THEN Split(row[3]) ELSE <<>>]

\* lines 909-917: the rows of three cells or more, as word_data
WordsOf(selected_rows) ==
    LET kept == SelectSeq(selected_rows, LAMBDA row : Len(row) >= 3)
    IN  [i \in 1..Len(kept) |-> WordData(kept[i])]

\* A bug AllData could have: the header row is not dropped.
AllDataWithHeader(s) == s

\* line 901: worksheet.get_all_values()[1:]
AllData(s) == SliceFrom(s, 1)

\* A bug ClampCount could have: every row is taken, whatever the count.
ClampCountAll(c, all_data) == Len(all_data)

\* lines 903-905
ClampCount(c, all_data) == IF Len(all_data) < c THEN Len(all_data) ELSE c

\* random.sample(population, k), line 907, for 0 <= k <= len(population): k
\* rows at k different positions, in an order of its choosing. The orders tried
\* are the runs of k positions from an offset 0..MaxRot, forwards and backwards,
\* around the population.
RandomSample(population, k) ==
    LET n == Len(population)
        run(r, d) == [i \in 1..k |-> population[((r + d * (i - 1)) % n) + 1]]
    IN  IF k = 0 THEN {<<>>}
        ELSE {run(r, d) : r \in 0..Min(n - 1, MaxRot), d \in {1, n - 1}}

\* get_random_words, lines 898-924: the lists it can return. raised:
\* worksheet.get_all_values() raised. random.sample raises ValueError for a
\* count that is negative or above len(all_data); both end in line 924.
get_random_words(s, c, raised) ==
    IF raised THEN {<<>>}
    ELSE LET all_data == AllData(s)
             k == ClampCount(c, all_data)
         IN  IF k < 0 \/ k > Len(all_data) THEN {<<>>}
             ELSE {WordsOf(selected_rows) :
                       selected_rows \in RandomSample(all_data, k)}

\* ---------------------------------------------------------------- generate_exam

\* A bug InsufficientWords could have: ten words are refused too.
InsufficientWordsOffByOne(ws) == Len(ws) <= MinWords

\* line 930
InsufficientWords(ws) == Len(ws) < MinWords

\* line 937
Section1Words(ws, section1_count) == Slice(ws, 0, section1_count)

\* line 938, the words section 2 starts from
TailBase(ws, total_count, section1_count) ==
    IF total_count >= LargeExam
    THEN Slice(ws, section1_count, total_count)
    ELSE SliceFrom(ws, section1_count)

\* A bug Section2Words could have: no words are taken again from the front.
Section2WordsNoWrap(ws, total_count, section1_count, section2_count) ==
    Slice(TailBase(ws, total_count, section1_count), 0, section2_count)

\* A bug Section2Words could have: the extended list is not cut to the target.
Section2WordsNoTruncate(ws, total_count, section1_count, section2_count) ==
    LET tail == TailBase(ws, total_count, section1_count)
    IN  IF Len(tail) < section2_count
        THEN tail \o Slice(ws, 0, section2_count - Len(tail))
        ELSE tail

\* lines 938-941
Section2Words(ws, total_count, section1_count, section2_count) ==
    LET tail == TailBase(ws, total_count, section1_count)
        extended ==
            IF Len(tail) < section2_count
            THEN tail \o Slice(ws, 0, section2_count - Len(tail))
            ELSE tail
    IN  Slice(extended, 0, section2_count)

\* lines 944-946: section1_words + section2_words
Pool(section1_words, section2_words) == section1_words \o section2_words

\* line 944
CompositionWords(pool, section3_count) == Slice(pool, 0, section3_count)

\* A bug ContextWords could have: the context words start at the front of the
\* pool, over the composition words.
ContextWordsFromFront(pool, section3_count, section4_count) ==
    Slice(pool, 0, section4_count)

\* line 945
ContextWords(pool, section3_count, section4_count) ==
    Slice(pool, section3_count, section3_count + section4_count)

\* A bug SynonymWords could have: the words are taken without the filter.
SynonymWordsUnfiltered(pool, section5_count) == Slice(pool, 0, section5_count)

\* line 946
SynonymWords(pool, section5_count) ==
    Slice(SelectSeq(pool, LAMBDA w : w.synonyms # <<>>), 0, section5_count)

NoAlloc ==
    [section1_words |-> <<>>, section2_words |-> <<>>,
     composition_words |-> <<>>, context_words |-> <<>>,
     synonym_words |-> <<>>]

\* strftime('%Y년 %m월 %d일 %H시 %M분') of a clock reading in seconds: the
\* minute the reading falls in, the seconds dropped.
Strftime(now) == now \div SecondsPerMinute

\* lines 1024-1030 and 1095-1101: the five situations of section 4
Contexts == <<"business meeting", "chat with a friend", "formal email",
              "ordering at a cafe", "in a hotel on a trip">>

\* A bug ZipContexts could have: every context word is shown, the situations
\* used again from the first once all were used.
ZipContextsCycled(context_words) ==
    [i \in 1..Len(context_words) |->
        <<context_words[i], Contexts[((i - 1) % Len(Contexts)) + 1]>>]

\* zip(context_words[:5], contexts): as many pairs as the shorter list
ZipContexts(context_words) ==
    LET shown == Slice(context_words, 0, RenderCap)
    IN  [i \in 1..Min(Len(shown), Len(Contexts)) |-> <<shown[i], Contexts[i]>>]

\* A bug Section5Part could have: section 5 is written even without words.
Section5PartAlways(synonym_words, section) == <<section>>

\* lines 1039 and 1108, "if synonym_words:": section 5 is part of a document
\* only when there are synonym words.
Section5Part(synonym_words, section) ==
    IF synonym_words # <<>> THEN <<section>> ELSE <<>>

\* create_exam_content, lines 975-1052. The text is kept as its parts: the
\* timestamp and the total of the title block, then the sections in the order
\* they are written, each with the number in its heading, the count in its
\* heading and its numbered items.
create_exam_content(section1_words, section2_words, composition_words, context_words, synonym_words, now) ==
    LET composition_shown == Slice(composition_words, 0, RenderCap)
        contexts == ZipContexts(context_words)
    IN  [generated |-> Strftime(now),
         total |-> Len(section1_words) + Len(section2_words)
                       + FixedCount + FixedCount + Len(synonym_words),
         sections |->
             << [section |-> 1, count |-> Len(section1_words),
                 items |-> [i \in 1..Len(section1_words) |->
                               <<i, section1_words[i].word>>]],
                [section |-> 2, count |-> Len(section2_words),
                 items |-> [i \in 1..Len(section2_words) |->
                               <<i, section2_words[i].meaning>>]],
                [section |-> 3, count |-> FixedCount,
                 items |-> [i \in 1..Len(composition_shown) |->
                               <<i, composition_shown[i].word>>]],
                [section |-> 4, count |-> FixedCount,
                 items |-> [i \in 1..Len(contexts) |->
                               <<i, contexts[i][2], contexts[i][1].word>>]] >>
             \o Section5Part(synonym_words,
                    [section |-> 5, count |-> Len(synonym_words),
                     items |-> [i \in 1..Len(synonym_words) |->
                                   <<i, synonym_words[i].word>>]])]

\* create_answer_content, lines 1054-1120, kept the same way; its headings
\* carry no counts.
create_answer_content(section1_words, section2_words, composition_words, context_words, synonym_words, now) ==
    LET composition_shown == Slice(composition_words, 0, RenderCap)
        contexts == ZipContexts(context_words)
    IN  [generated |-> Strftime(now),
         sections |->
             << [section |-> 1,
                 items |-> [i \in 1..Len(section1_words) |->
                               <<i, section1_words[i].word,
                                 section1_words[i].meaning>>]],
                [section |-> 2,
                 items |-> [i \in 1..Len(section2_words) |->
                               <<i, section2_words[i].meaning,
                                 section2_words[i].word>>]],
                [section |-> 3,
                 items |-> [i \in 1..Len(composition_shown) |->
                               <<i, composition_shown[i].word>>]],
                [section |-> 4,
                 items |-> [i \in 1..Len(contexts) |->
                               <<i, contexts[i][2], contexts[i][1].word>>]] >>
             \o Section5Part(synonym_words,
                    [section |-> 5,
                     items |-> [i \in 1..Len(synonym_words) |->
                                   <<i, synonym_words[i].word,
                                     Join(synonym_words[i].synonyms)>>]])]

\* generate_exam from line 930 on, given the words of line 929, the arguments
\* r, and what the clock shows when create_exam_content (now1) and
\* create_answer_content (now2) read it: the five lists and the dict returned.
generate_exam(ws, r, now1, now2) ==
    IF InsufficientWords(ws)
    THEN [alloc |-> NoAlloc,
          exam_result |->
              [success |-> FALSE,
               error |-> [available |-> Len(ws), required |-> MinWords]]]
    ELSE LET section1_words == Section1Words(ws, r.section1_count)
             section2_words ==
                 Section2Words(ws, r.total_count, r.section1_count,
                               r.section2_count)
             pool == Pool(section1_words, section2_words)
             composition_words == CompositionWords(pool, r.section3_count)
             context_words ==
                 ContextWords(pool, r.section3_count, r.section4_count)
             synonym_words == SynonymWords(pool, r.section5_count)
         IN  [alloc |->
                  [section1_words |-> section1_words,
                   section2_words |-> section2_words,
                   composition_words |-> composition_words,
                   context_words |-> context_words,
                   synonym_words |-> synonym_words],
              exam_result |->
                  [success |-> TRUE,
                   exam_content |->
                       create_exam_content(section1_words, section2_words,
                           composition_words, context_words, synonym_words,
                           now1),
                   answer_content |->
                       create_answer_content(section1_words, section2_words,
                           composition_words, context_words, synonym_words,
                           now2),
                   section1_count |-> r.section1_count,
                   section2_count |-> r.section2_count,
                   section3_count |-> r.section3_count,
                   section4_count |-> r.section4_count,
                   section5_count |-> Len(synonym_words),
                   total_questions |->
                       r.section1_count + r.section2_count + r.section3_count
                       + r.section4_count + Len(synonym_words)]]

\* ---------------------------------------------------------------- handle_exam_generation

Digits == <<"0", "1", "2", "3", "4", "5", "6", "7", "8", "9">>

\* int(s) of a string of decimal digits, as the groups (\d+) of line 730 are
RECURSIVE int(_)
int(s) ==
    IF Len(s) = 1
    THEN (CHOOSE d \in 1..Len(Digits) : Digits[d] = s[1]) - 1
    ELSE 10 * int(SubSeq(s, 1, Len(s) - 1)) + int(<<s[Len(s)]>>)

\* lines 742-747: the values used for the groups that matched nothing
Defaults ==
    [total_count |-> 30, section1_count |-> 15, section2_count |-> 15,
     section3_count |-> 5, section4_count |-> 5, section5_count |-> 10]

\* lines 742-747, "int(x) if x else d": a group that matched nothing is
\* falsy, and is the empty string here.
IntOr(str, default) == IF str # <<>> THEN int(str) ELSE default

\* lines 734-747: the arguments of generate_exam read off the six groups
ParseCommand(m) ==
    [total_count |-> IntOr(m[1], Defaults.total_count),
     section1_count |-> IntOr(m[2], Defaults.section1_count),
     section2_count |-> IntOr(m[3], Defaults.section2_count),
     section3_count |-> IntOr(m[4], Defaults.section3_count),
     section4_count |-> IntOr(m[5], Defaults.section4_count),
     section5_count |-> IntOr(m[6], Defaults.section5_count)]

\* A bug OutOfRange could have: no upper limit.
OutOfRangeNoUpper(total_count) == total_count < MinTotal

\* line 749
OutOfRange(total_count) == total_count < MinTotal \/ total_count > MaxTotal

\* What can happen to upload_exam_files.
UploadOutcomes == {"ok", "first upload raises", "second upload raises"}

\* upload_exam_files, lines 1122-1160: the files that reached the channel. An
\* exception ends the uploads and is logged at line 1160; nothing is returned
\* or raised to the caller either way.
upload_exam_files(res, outcome) ==
    LET exam_file == [title |-> "exam", file |-> res.exam_content]
        answer_file == [title |-> "answer key", file |-> res.answer_content]
    IN  CASE outcome = "first upload raises" -> <<>>
          [] outcome = "second upload raises" -> <<exam_file>>
          [] outcome = "ok" -> <<exam_file, answer_file>>

\* line 750
RangeMessage == [text |-> "out of range"]

\* line 753
GeneratingMessage(total_count) ==
    [text |-> "generating", total_count |-> total_count]

\* lines 762-776
DoneMessage(res) ==
    [text |-> "exam done",
     section1_count |-> res.section1_count,
     section2_count |-> res.section2_count,
     section3_count |-> res.section3_count,
     section4_count |-> res.section4_count,
     section5_count |-> res.section5_count,
     total_questions |-> res.total_questions]

\* line 778
FailedMessage(res) == [text |-> "generation failed", error |-> res.error]

\* ---------------------------------------------------------------- idle parts

Procs == {1, 2}

NoWordInfo == [word |-> <<>>, korean_meaning |-> <<>>, synonyms |-> <<>>]

NoMessage == [word |-> <<>>, footer |-> "none"]

IdleChunk ==
    /\ text = <<>>
    /\ maxSize = 1
    /\ full_text = <<>>
    /\ chunks = <<>>
    /\ cpc = "idle"

IdleAdd ==
    /\ word_info = NoWordInfo
    /\ io = <<>>
    /\ ret = FALSE
    /\ result_message = NoMessage

IdleConc ==
    /\ pc = [p \in Procs |-> "idle"]
    /\ winfo = [p \in Procs |-> NoWordInfo]
    /\ next_row = [p \in Procs |-> 0]
    /\ result = [p \in Procs |-> FALSE]
    /\ pio = [p \in Procs |-> <<>>]

IdleSample ==
    /\ count = -1
    /\ words_read = FALSE
    /\ sample = <<>>

NoRequest ==
    [total_count |-> -1, section1_count |-> 0, section2_count |-> 0,
     section3_count |-> 0, section4_count |-> 0, section5_count |-> 0]

\* line 507-511: the results dict before anything was sent
NoResults ==
    [mixed_content_sent |-> FALSE, commentary_sent |-> FALSE, errors |-> <<>>]

IdleSend ==
    /\ mixed_messages = <<>>
    /\ next_message = 0
    /\ calls = <<>>
    /\ results = NoResults
    /\ spc = "idle"

NoCommand == <<>>

IdleHandler ==
    /\ matches = NoCommand
    /\ said = <<>>
    /\ uploads = <<>>

IdleExam ==
    /\ req = NoRequest
    /\ words = <<>>
    /\ alloc = NoAlloc
    /\ exam_result = [success |-> FALSE, error |-> [available |-> -1, required |-> -1]]

\* ---------------------------------------------------------------- SpecChunk

InitChunk ==
    /\ text \in Texts
    /\ maxSize \in 1..MaxSize
    /\ full_text = text
    /\ chunks = <<>>
    /\ cpc = "loop"
    /\ sheet = <<HeaderRow>>
    /\ IdleAdd /\ IdleConc /\ IdleSample /\ IdleExam /\ IdleHandler
    /\ IdleSend

\* One iteration of the while loop, lines 585-590.
ChunkLoop ==
    /\ cpc = "loop"
    /\ Len(full_text) > maxSize
    /\ Len(chunks) < MaxChunks
    /\ LET split_pos == SplitPos(full_text, maxSize)
       IN  /\ chunks' = Append(chunks, ChunkOf(full_text, split_pos))
           /\ full_text' = RestOf(full_text, split_pos)
    /\ UNCHANGED <<text, maxSize, cpc>>
    /\ UNCHANGED <<sheet, addVars, concVars, sampleVars, examVars, handlerVars,
                           sendVars>>

\* The loop ends and line 591 appends the remainder.
ChunkLast ==
    /\ cpc = "loop"
    /\ ~(Len(full_text) > maxSize)
    /\ chunks' = Append(chunks, full_text)
    /\ cpc' = "done"
    /\ UNCHANGED <<text, maxSize, full_text>>
    /\ UNCHANGED <<sheet, addVars, concVars, sampleVars, examVars, handlerVars,
                           sendVars>>

NextChunk == ChunkLoop \/ ChunkLast

SpecChunk == InitChunk /\ [][NextChunk]_vars

\* ---------------------------------------------------------------- SpecSheet

InitSheet ==
    /\ sheet = <<HeaderRow>>
    /\ IdleAdd /\ IdleChunk /\ IdleConc /\ IdleSample /\ IdleExam /\ IdleHandler
    /\ IdleSend

\* handle_vocab_query from line 720 on, for the single writer: one
\* add_to_sheet call, and the message said about it.
AddToSheet ==
    \E info \in WordInfos, o \in [1..3 -> BOOLEAN] :
        LET r == add_to_sheet(sheet, info, o)
        IN  /\ Len(Bank(r.sheet)) <= MaxBank
            /\ sheet' = r.sheet
            /\ ret' = r.ret
            /\ io' = r.io
            /\ word_info' = info
            /\ result_message' = format_vocab_response(info, r.ret)
            /\ UNCHANGED <<chunkVars, concVars, sampleVars, examVars, handlerVars, sendVars>>

NextSheet == AddToSheet

SpecSheet == InitSheet /\ [][NextSheet]_vars

\* ---------------------------------------------------------------- SpecConc
\* Two listeners run add_to_sheet at once; a step is one worksheet call.

InitConc ==
    /\ sheet = <<HeaderRow>>
    /\ IdleConc
    /\ IdleAdd /\ IdleChunk /\ IdleSample /\ IdleExam /\ IdleHandler
    /\ IdleSend

\* handle_vocab_query calls add_to_sheet(word_info), line 720.
Call(p) ==
    /\ pc[p] = "idle"
    /\ \E info \in WordInfos : winfo' = [winfo EXCEPT ![p] = info]
    /\ pc' = [pc EXCEPT ![p] = "check"]
    /\ UNCHANGED <<sheet, next_row, result, pio>>
    /\ UNCHANGED <<chunkVars, addVars, sampleVars, examVars, handlerVars, sendVars>>

\* line 1183: check_duplicate(word) and the return of line 1185
CheckDuplicate(p) ==
    /\ pc[p] = "check"
    /\ \E raised \in BOOLEAN :
        /\ pio' = [pio EXCEPT ![p] = Append(@, Outcome(raised))]
        /\ IF check_duplicate(sheet, winfo[p].word, raised)
           THEN /\ pc' = [pc EXCEPT ![p] = "done"]
                /\ result' = [result EXCEPT ![p] = FALSE]
           ELSE /\ pc' = [pc EXCEPT ![p] = "count"]
                /\ UNCHANGED result
    /\ UNCHANGED <<sheet, winfo, next_row>>
    /\ UNCHANGED <<chunkVars, addVars, sampleVars, examVars, handlerVars, sendVars>>

\* line 1187: next_row = len(self.worksheet.col_values(1)) + 1
CountRows(p) ==
    /\ pc[p] = "count"
    /\ \E raised \in BOOLEAN :
        /\ pio' = [pio EXCEPT ![p] = Append(@, Outcome(raised))]
        /\ IF raised
           THEN /\ pc' = [pc EXCEPT ![p] = "done"]
                /\ result' = [result EXCEPT ![p] = FALSE]
                /\ UNCHANGED next_row
           ELSE /\ pc' = [pc EXCEPT ![p] = "insert"]
                /\ next_row' = [next_row EXCEPT ![p] = NextRow(sheet)]
                /\ UNCHANGED result
    /\ UNCHANGED <<sheet, winfo>>
    /\ UNCHANGED <<chunkVars, addVars, sampleVars, examVars, handlerVars, sendVars>>

\* lines 1198-1205: insert_row and the return
Insert(p) ==
    /\ pc[p] = "insert"
    /\ \E raised \in BOOLEAN :
        /\ pio' = [pio EXCEPT ![p] = Append(@, Outcome(raised))]
        /\ pc' = [pc EXCEPT ![p] = "done"]
        /\ result' = [result EXCEPT ![p] = ~raised]
        /\ sheet' = IF raised THEN sheet
                    ELSE InsertRow(sheet, RowData(winfo[p]), next_row[p])
    /\ UNCHANGED <<winfo, next_row>>
    /\ UNCHANGED <<chunkVars, addVars, sampleVars, examVars, handlerVars, sendVars>>

NextConc ==
    \E p \in Procs : Call(p) \/ CheckDuplicate(p) \/ CountRows(p) \/ Insert(p)

SpecConc == InitConc /\ [][NextConc]_vars

\* ---------------------------------------------------------------- SpecSample

\* The rows add_to_sheet writes.
Rows == {RowData(info) : info \in WordInfos}

\* The sheets add_to_sheet calls leave: the header and up to MaxBank rows.
Sheets == {<<HeaderRow>> \o b : b \in UNION {[1..n -> Rows] : n \in 0..MaxBank}}

InitSample ==
    /\ sheet \in Sheets
    /\ IdleSample
    /\ IdleAdd /\ IdleChunk /\ IdleConc /\ IdleExam /\ IdleHandler
    /\ IdleSend

\* One get_random_words(count) call.
GetRandomWords ==
    \E c \in 0..MaxCount, raised \in BOOLEAN :
        \E ws \in get_random_words(sheet, c, raised) :
            /\ count' = c
            /\ words_read' = ~raised
            /\ sample' = ws
            /\ UNCHANGED <<sheet, chunkVars, addVars, concVars, examVars, handlerVars,
                           sendVars>>

NextSample == GetRandomWords

SpecSample == InitSample /\ [][NextSample]_vars

\* ---------------------------------------------------------------- SpecExam

\* The words of the bank an exam is drawn from: one letter each, all different.
ExamLetters ==
    <<"c", "d", "e", "f", "g", "h", "i", "j", "k", "l", "n", "o", "p", "q">>

\* Which rows have synonyms: none (0), or every row whose number m divides.
SynonymEvery == {0, 1, 3}

ExamRow(i, m) ==
    << IF i <= Len(ExamLetters)
       THEN <<ExamLetters[i]>>
       ELSE <<ExamLetters[(i - 1) \div Len(ExamLetters)],
              ExamLetters[((i - 1) % Len(ExamLetters)) + 1]>>,
       <<"m">>,
       IF m > 0 /\ i % m = 0 THEN Join(<< <<"x">>, <<"y">> >>) ELSE <<>> >>

\* The banks an exam is drawn from: 9 to MaxExamBank words, and one of 31
\* words, from which the sample of a 30-question exam is a proper cut.
ExamSheets ==
    {<<HeaderRow>> \o [i \in 1..n |-> ExamRow(i, m)] :
         n \in ((MinWords - 1)..MaxExamBank) \cup {LargeExam + 1},
         m \in SynonymEvery}

\* The arguments generate_exam is called with.
Requests ==
    [total_count : {9, 10, 12, 30},
     section1_count : {0, 4, 10, 15},
     section2_count : {0, 5, 15},
     section3_count : {0, 5, 8},
     section4_count : {0, 5, 7},
     section5_count : {0, 2, 10}]

InitExam ==
    /\ sheet \in ExamSheets
    /\ IdleExam
    /\ IdleAdd /\ IdleChunk /\ IdleConc /\ IdleSample /\ IdleHandler
    /\ IdleSend

\* What the clock can show when the exam document is written: late enough in
\* a minute for the next reading to fall in the same minute or in the next.
ClockReadings == {58}

\* One generate_exam call, lines 926-973. The call reads nothing that a call
\* before it wrote, so the first call of a behaviour shows every result. The
\* clock is read for the exam document and, up to MaxElapsed seconds later,
\* for the answer key.
GenerateExam ==
    /\ req = NoRequest
    /\ \E r \in Requests, raised \in BOOLEAN, now \in ClockReadings,
          elapsed \in 0..MaxElapsed :
        \E ws \in get_random_words(sheet, r.total_count, raised) :
            LET g == generate_exam(ws, r, now, now + elapsed)
            IN  /\ req' = r
                /\ words' = ws
                /\ alloc' = g.alloc
                /\ exam_result' = g.exam_result
                /\ UNCHANGED <<sheet, chunkVars, addVars, concVars, sampleVars, handlerVars,
                           sendVars>>

NextExam == GenerateExam

SpecExam == InitExam /\ [][NextExam]_vars

\* ---------------------------------------------------------------- SpecHandler
\* One exam command, from the groups of the pattern to the last message said.

\* The digit strings tried for the total: below, at and above both limits.
TotalStrings ==
    {<<>>, <<"9">>, <<"1", "0">>, <<"1", "0", "0">>, <<"1", "0", "1">>}

\* The commands tried: each group matched nothing or a digit string.
Commands ==
    {<<t, s1, s2, s3, s4, s5>> :
         t \in TotalStrings, s1 \in {<<>>, <<"4">>}, s2 \in {<<>>, <<"0", "5">>},
         s3 \in {<<>>, <<"0">>}, s4 \in {<<>>, <<"7">>}, s5 \in {<<>>, <<"2">>}}

InitHandler ==
    /\ sheet \in ExamSheets
    /\ IdleHandler
    /\ IdleAdd /\ IdleChunk /\ IdleConc /\ IdleSample /\ IdleExam
    /\ IdleSend

\* handle_exam_generation, lines 731-784, for one command. The groups are
\* digit strings, so int raises no ValueError (line 780), and generate_exam
\* and upload_exam_files catch what their calls raise, so the handlers of
\* lines 780-784 are not entered.
HandleExamGeneration ==
    /\ matches = NoCommand
    /\ \E m \in Commands :
        LET r == ParseCommand(m)
        IN  /\ matches' = m
            /\ IF OutOfRange(r.total_count)
               THEN /\ said' = <<RangeMessage>>
                    /\ UNCHANGED <<uploads, examVars>>
               ELSE \E raised \in BOOLEAN, now \in ClockReadings,
                       elapsed \in 0..MaxElapsed, outcome \in UploadOutcomes :
                    \E ws \in get_random_words(sheet, r.total_count, raised) :
                        LET g == generate_exam(ws, r, now, now + elapsed)
                        IN  /\ req' = r
                            /\ words' = ws
                            /\ alloc' = g.alloc
                            /\ exam_result' = g.exam_result
                            /\ IF g.exam_result.success
                               THEN /\ uploads' = upload_exam_files(
                                                      g.exam_result, outcome)
                                    /\ said' = <<GeneratingMessage(r.total_count),
                                                 DoneMessage(g.exam_result)>>
                               ELSE /\ uploads' = <<>>
                                    /\ said' = <<GeneratingMessage(r.total_count),
                                                 FailedMessage(g.exam_result)>>
    /\ UNCHANGED <<sheet, chunkVars, addVars, concVars, sampleVars, sendVars>>

NextHandler == HandleExamGeneration

SpecHandler == InitHandler /\ [][NextHandler]_vars

\* ---------------------------------------------------------------- SpecRoundTrip
\* A word is stored in an empty bank by add_to_sheet and read back by
\* get_random_words.

\* The characters of a synonym: a letter, and the two of the separator.
SynChars == {"x", ",", " "}

\* The synonyms tried: every string of up to MaxSynLen such characters.
Synonyms == UNION {[1..n -> SynChars] : n \in 0..MaxSynLen}

\* The word_info stored: every list of up to MaxSynonyms such synonyms.
StoredInfos ==
    [word : {<<"b">>}, korean_meaning : {<<"m">>},
     synonyms : UNION {[1..n -> Synonyms] : n \in 0..MaxSynonyms}]

InitRoundTrip ==
    /\ sheet = <<HeaderRow>>
    /\ IdleAdd /\ IdleChunk /\ IdleConc /\ IdleSample /\ IdleExam /\ IdleHandler
    /\ IdleSend

\* handle_vocab_query from line 720 on, for the first word of the bank.
StoreWord ==
    /\ word_info = NoWordInfo
    /\ \E info \in StoredInfos, o \in [1..3 -> BOOLEAN] :
        LET r == add_to_sheet(sheet, info, o)
        IN  /\ sheet' = r.sheet
            /\ ret' = r.ret
            /\ io' = r.io
            /\ word_info' = info
            /\ result_message' = format_vocab_response(info, r.ret)
            /\ UNCHANGED <<chunkVars, concVars, sampleVars, examVars,
                           handlerVars, sendVars>>

\* get_random_words(1), lines 898-924, once the word is in the bank.
ReadBack ==
    /\ Bank(sheet) # <<>>
    /\ count = -1
    /\ \E raised \in BOOLEAN :
        \E ws \in get_random_words(sheet, 1, raised) :
            /\ count' = 1
            /\ words_read' = ~raised
            /\ sample' = ws
            /\ UNCHANGED <<sheet, chunkVars, addVars, concVars, examVars,
                           handlerVars, sendVars>>

NextRoundTrip == StoreWord \/ ReadBack

SpecRoundTrip == InitRoundTrip /\ [][NextRoundTrip]_vars

\* ---------------------------------------------------------------- SpecSend
\* One send_daily_materials call; a step is one chat_postMessage call with
\* what the code does after it, up to the next call or the return.

\* What a chat_postMessage call can do: answer, raise SlackApiError (the API
\* refused), or raise anything else (the request did not get through).
PostOutcomes == {"ok", "SlackApiError", "Exception"}

\* The message of the commentary (line 529).
CommentaryMessage == [kind |-> "commentary", chunk |-> 0]

\* The message of the i-th chunk (lines 593-606).
MixedMessage(i) == [kind |-> "mixed content", chunk |-> i]

\* The messages of the calls that were answered: what is in the channel.
Channel(cs) ==
    LET answered == SelectSeq(cs, LAMBDA c : c.outcome = "ok")
    IN  [i \in 1..Len(answered) |-> answered[i].message]

\* lines 541-543: what the outer handler returns
FailedResults ==
    [mixed_content_sent |-> FALSE, commentary_sent |-> FALSE,
     errors |-> <<"Exception">>]

\* lines 506-515: the messages to send are the chunks, one at least (line
\* 591).
InitSend ==
    /\ mixed_messages \in {[i \in 1..n |-> MixedMessage(i)] : n \in 1..MaxMessages}
    /\ next_message = 1
    /\ calls = <<>>
    /\ results = NoResults
    /\ spc = "mixed"
    /\ sheet = <<HeaderRow>>
    /\ IdleAdd /\ IdleChunk /\ IdleConc /\ IdleSample /\ IdleExam /\ IdleHandler

\* lines 516-525: one chat_postMessage of the for loop. After the last message
\* line 521 sets mixed_content_sent; a SlackApiError ends the loop at line
\* 523; any other exception leaves the function through line 541.
PostMixed ==
    /\ spc = "mixed"
    /\ \E outcome \in PostOutcomes :
        /\ calls' = Append(calls, [message |-> mixed_messages[next_message],
                                   outcome |-> outcome])
        /\ CASE outcome = "ok" ->
                   IF next_message < Len(mixed_messages)
                   THEN /\ next_message' = next_message + 1
                        /\ UNCHANGED <<results, spc>>
                   ELSE /\ results' = [results EXCEPT !.mixed_content_sent = TRUE]
                        /\ spc' = "commentary"
                        /\ UNCHANGED next_message
             [] outcome = "SlackApiError" ->
                   /\ results' = [results EXCEPT
                                     !.errors = Append(@, "mixed content")]
                   /\ spc' = "commentary"
                   /\ UNCHANGED next_message
             [] outcome = "Exception" ->
                   /\ results' = FailedResults
                   /\ spc' = "done"
                   /\ UNCHANGED next_message
    /\ UNCHANGED <<mixed_messages, sheet, chunkVars, addVars, concVars,
                   sampleVars, examVars, handlerVars>>

\* lines 527-540: the chat_postMessage of the commentary, and the return.
PostCommentary ==
    /\ spc = "commentary"
    /\ \E outcome \in PostOutcomes :
        /\ calls' = Append(calls, [message |-> CommentaryMessage,
                                   outcome |-> outcome])
        /\ results' =
               CASE outcome = "ok" ->
                      [results EXCEPT !.commentary_sent = TRUE]
                 [] outcome = "SlackApiError" ->
                      [results EXCEPT !.errors = Append(@, "commentary")]
                 [] outcome = "Exception" -> FailedResults
    /\ spc' = "done"
    /\ UNCHANGED <<mixed_messages, next_message, sheet, chunkVars, addVars,
                   concVars, sampleVars, examVars, handlerVars>>

NextSend == PostMixed \/ PostCommentary

SpecSend == InitSend /\ [][NextSend]_vars

\* ---------------------------------------------------------------- claims

\* C1: every iteration of the chunk loop leaves strictly less text to split
\* than it found, so the loop ends after finitely many chunks.
C1_EachIterationShrinks ==
    [][(cpc = "loop" /\ cpc' = "loop") => Len(full_text') < Len(full_text)]_vars

\* The text has a blank line ("\n\n") somewhere.
HasBlankLine(s) == RFind(s, Len(s)) # -1

\* The text starts with a blank line.
StartsWithBlankLine(s) == Len(s) >= 2 /\ s[1] = NL /\ s[2] = NL

\* C2: the chunks made so far, followed by the text still to split, are the
\* text; so the chunks returned, concatenated in order, are the text. A text no
\* longer than maxSize is returned as one chunk, and a text with no blank line
\* is cut by hard splits alone: every chunk but the last is maxSize long.
C2_RoundTrip ==
    /\ cpc = "loop" => Concat(chunks) \o full_text = text
    /\ cpc = "done" => Concat(chunks) = text
    /\ (cpc = "done" /\ Len(text) <= maxSize) => chunks = <<text>>
    /\ (cpc = "done" /\ ~HasBlankLine(text)) =>
           \A i \in 1..(Len(chunks) - 1) : Len(chunks[i]) = maxSize

\* The chunker returned, having cut once at a blank line and once by a hard split.
C2_Witness ==
    /\ cpc = "done"
    /\ Len(text) > maxSize
    /\ \E i \in 1..(Len(chunks) - 1) :
           /\ Len(chunks[i]) < maxSize
           /\ Len(chunks[i]) > 0
           /\ StartsWithBlankLine(chunks[i + 1])
    /\ \E i \in 1..(Len(chunks) - 1) : Len(chunks[i]) = maxSize

\* C3: no chunk is longer than maxSize, whichever split made it, the last one
\* included.
C3_ChunkWithinLimit ==
    \A i \in 1..Len(chunks) : Len(chunks[i]) <= maxSize

\* The chunker returned three chunks or more: one cut at a blank line, one cut
\* by a hard split, and a remainder.
C3_Witness ==
    /\ cpc = "done"
    /\ Len(chunks) >= 3
    /\ \E i \in 1..(Len(chunks) - 1) :
           Len(chunks[i]) < maxSize /\ StartsWithBlankLine(chunks[i + 1])
    /\ \E i \in 1..(Len(chunks) - 1) :
           Len(chunks[i]) = maxSize /\ ~StartsWithBlankLine(chunks[i + 1])
    /\ chunks[Len(chunks)] # <<>>

\* C4: the bank of the single writer never holds two entries with the same
\* word, ignoring case.
C4_NoDuplicateEntries == ~HasDuplicate(sheet)

\* C5: an add_to_sheet call for a word that is in the bank, in any letter case,
\* returns False and leaves the sheet as it was; a call for a word that is not
\* in the bank, whose worksheet calls all answer, appends one row at the end.
C5_DuplicateRejected ==
    [][IF InBank(sheet, word_info'.word)
       THEN ret' = FALSE /\ sheet' = sheet
       ELSE (\A i \in 1..Len(io') : io'[i] = "ok") =>
                ret' = TRUE /\ sheet' = Append(sheet, RowData(word_info'))]_vars

\* Both listeners are done, no worksheet call of either raised, and both
\* add_to_sheet calls returned True.
BothInserted ==
    \A p \in Procs :
        pc[p] = "done" /\ result[p] /\ pio[p] = <<"ok", "ok", "ok">>

\* C6: the duplicate check and the insert are separate steps: when two
\* listeners add words equal ignoring case, and both pass check_duplicate
\* before either inserts, both insert a row and the bank holds two entries
\* equal ignoring case.
C6_RaceLeavesTwoEntries ==
    (BothInserted /\ Lower(winfo[1].word) = Lower(winfo[2].word)) =>
        /\ Len(Bank(sheet)) = 2
        /\ HasDuplicate(sheet)

\* The interleaving happened: two words equal ignoring case, both inserted.
C6_Witness ==
    /\ BothInserted
    /\ Lower(winfo[1].word) = Lower(winfo[2].word)
    /\ winfo[1].word # winfo[2].word
    /\ HasDuplicate(sheet)

\* generate_exam was called.
ExamCalled == req.total_count >= 0

\* C7: in an exam made from k >= 10 words, section 1 has min(s1, k) words, and
\* section 2 has s2 words whenever k >= s2.
C7_SectionSizes ==
    (ExamCalled /\ exam_result.success) =>
        /\ Len(words) >= MinWords
        /\ Len(alloc.section1_words) = Min(req.section1_count, Len(words))
        /\ Len(words) >= req.section2_count =>
               Len(alloc.section2_words) = req.section2_count

\* An exam whose section 1 took the whole sample (k < s1) and whose section 2
\* was filled up to s2 with words taken again from the front of the sample.
C7_Witness ==
    /\ ExamCalled /\ exam_result.success
    /\ Len(words) < req.section1_count
    /\ req.section2_count > 0
    /\ Len(words) >= req.section2_count
    /\ Len(TailBase(words, req.total_count, req.section1_count))
           < req.section2_count
    /\ Len(alloc.section2_words) = req.section2_count

\* C8: generate_exam fails exactly when it got fewer than 10 words, and then
\* reports how many it got and that 10 are needed; with 10 words or more it
\* succeeds, whatever the targets.
C8_FailsBelowTenWords ==
    ExamCalled =>
        /\ exam_result.success <=> Len(words) >= 10
        /\ ~exam_result.success =>
               exam_result.error = [available |-> Len(words), required |-> 10]

\* A sample of 9 words was refused.
C8_Witness ==
    /\ ExamCalled
    /\ Len(words) = 9
    /\ ~exam_result.success
    /\ exam_result.error = [available |-> 9, required |-> 10]

\* How often v occurs in the sequence s.
Occurrences(s, v) == Cardinality({i \in 1..Len(s) : s[i] = v})

C10_ReportedCountsAreActual ==
    (ExamCalled /\ exam_result.success) =>
        /\ exam_result.section1_count = Len(alloc.section1_words)
        /\ exam_result.section2_count = Len(alloc.section2_words)
        /\ exam_result.section3_count = Len(alloc.composition_words)
        /\ exam_result.section4_count = Len(alloc.context_words)
        /\ exam_result.section5_count = Len(alloc.synonym_words)

\* The scenario of C14: total 12 and s1 = 15 with the other targets at their
\* defaults, on a sample of 12 words.
C14_Scenario ==
    /\ ExamCalled /\ exam_result.success
    /\ req = [total_count |-> 12, section1_count |-> 15, section2_count |-> 15,
              section3_count |-> 5, section4_count |-> 5,
              section5_count |-> 10]
    /\ Len(words) = 12

\* C14 as stated: in the scenario section 1 is the whole sample, the tail
\* window is empty, and the wrap-around brings section 2 to size s2 = 15.
C14_Section2ReachesTarget ==
    C14_Scenario =>
        /\ alloc.section1_words = words
        /\ TailBase(words, req.total_count, req.section1_count) = <<>>
        /\ Len(alloc.section2_words) = req.section2_count

\* C14: in the scenario section 1 is the whole sample, the tail window is
\* empty, and the wrap-around makes section 2 the whole sample again: 12
\* words, min(s2, k), not s2.
C14_Section2IsWholeSample ==
    C14_Scenario =>
        /\ alloc.section1_words = words
        /\ TailBase(words, req.total_count, req.section1_count) = <<>>
        /\ alloc.section2_words = words
        /\ Len(alloc.section2_words) = Min(req.section2_count, Len(words))

\* The scenario happened, and section 2 came out three words short of s2.
C14_Witness ==
    /\ C14_Scenario
    /\ Len(alloc.section2_words) = 12
    /\ Len(alloc.section2_words) < req.section2_count

\* C19: section 2 is (tailBase ++ sample[0 : s2 - len(tailBase)])[0 : s2] when
\* tailBase is shorter than s2 and tailBase[0 : s2] otherwise, tailBase being
\* sample[s1 : total] for total >= 30 and sample[s1 : k] below; nothing is
\* removed from it for being in section 1 already.
C19_Section2Formula ==
    (ExamCalled /\ exam_result.success) =>
        LET k == Len(words)
            s1 == req.section1_count
            s2 == req.section2_count
            tailBase == IF req.total_count >= 30
                        THEN Slice(words, s1, req.total_count)
                        ELSE Slice(words, s1, k)
            expected == IF Len(tailBase) < s2
                        THEN Slice(tailBase \o Slice(words, 0, s2 - Len(tailBase)),
                                   0, s2)
                        ELSE Slice(tailBase, 0, s2)
        IN  alloc.section2_words = expected

\* An exam of total >= 30 whose tail window was not empty and shorter than s2:
\* section 2 goes on with the first word of section 1.
C19_Witness ==
    /\ ExamCalled /\ exam_result.success
    /\ req.total_count >= 30
    /\ alloc.section1_words # <<>>
    /\ LET tail == TailBase(words, req.total_count, req.section1_count)
       IN  /\ tail # <<>>
           /\ Len(tail) < req.section2_count
           /\ Len(alloc.section2_words) > Len(tail)
           /\ alloc.section2_words[Len(tail) + 1] = alloc.section1_words[1]

\* C20: the composition words are the first s3 entries of
\* pool = section1 ++ section2 and the context words the s4 entries after
\* them, position by position; either list is shorter only where the pool
\* ends, and neither holds anything that is not at its position of the pool.
C20_CompositionThenContext ==
    (ExamCalled /\ exam_result.success) =>
        LET pool == alloc.section1_words \o alloc.section2_words
            s3 == req.section3_count
            s4 == req.section4_count
            composition == alloc.composition_words
            context == alloc.context_words
        IN  /\ Len(composition) = Min(s3, Len(pool))
            /\ Len(context) = Min(s4, SetMax({Len(pool) - s3, 0}))
            /\ \A i \in 1..Len(composition) : composition[i] = pool[i]
            /\ \A i \in 1..Len(context) : context[i] = pool[s3 + i]

\* The pool ended inside the context window: all s3 composition words, and
\* fewer than s4 context words.
C20_Witness ==
    /\ ExamCalled /\ exam_result.success
    /\ req.section3_count > 0
    /\ Len(alloc.composition_words) = req.section3_count
    /\ alloc.context_words # <<>>
    /\ Len(alloc.context_words) < req.section4_count

\* C11: the total in the title block of the exam document is
\* s1 + s2 + min(s3, 5) + min(s4, 5) + len(synonymFiltered), s1 and s2 read
\* either as the targets or as the sizes of sections 1 and 2.
C11_TitleTotal ==
    (ExamCalled /\ exam_result.success) =>
        \E s1s2 \in {req.section1_count + req.section2_count,
                      Len(alloc.section1_words) + Len(alloc.section2_words)} :
            exam_result.exam_content.total =
                s1s2 + Min(req.section3_count, 5) + Min(req.section4_count, 5)
                    + Len(alloc.synonym_words)

\* C12: the exam document and the answer key of one generate_exam call carry
\* the same timestamp.
C12_SameTimestamp ==
    (ExamCalled /\ exam_result.success) =>
        exam_result.exam_content.generated
            = exam_result.answer_content.generated

\* The section numbers of a document, in the order written.
SectionNumbers(content) ==
    [i \in 1..Len(content.sections) |-> content.sections[i].section]

\* C13: both documents have sections 1 to 4 in this order, followed by
\* section 5 exactly when there are synonym words; without synonym words no
\* section 5 is written.
C13_Section5IffSynonyms ==
    (ExamCalled /\ exam_result.success) =>
        LET expected == IF alloc.synonym_words # <<>>
                        THEN <<1, 2, 3, 4, 5>>
                        ELSE <<1, 2, 3, 4>>
        IN  /\ SectionNumbers(exam_result.exam_content) = expected
            /\ SectionNumbers(exam_result.answer_content) = expected

\* Section 5 was asked for (s5 > 0) and the pool was not empty, but none of
\* its words has synonyms: both documents end with section 4.
C13_Witness ==
    /\ ExamCalled /\ exam_result.success
    /\ req.section5_count > 0
    /\ alloc.section1_words # <<>>
    /\ alloc.synonym_words = <<>>
    /\ Len(exam_result.exam_content.sections) = 4
    /\ Len(exam_result.answer_content.sections) = 4

\* C16: the writer is told "already saved" only for a word that is in the
\* bank ignoring case, and never after a call in which the sheet failed.
C16_AlreadySavedMeansDuplicate ==
    result_message.footer = "already saved" =>
        /\ InBank(sheet, word_info.word)
        /\ \A i \in 1..Len(io) : io[i] # "raise"

\* A command was handled.
Handled == matches # NoCommand

\* The exam was generated, and an upload raised.
UploadFailed == Handled /\ exam_result.success /\ Len(uploads) < 2

\* C15: when the exam is generated and its upload fails, the requester is not
\* told what a fully successful run is told, nor what a failed generation is
\* told.
C15_UploadFailureReported ==
    UploadFailed =>
        /\ said[Len(said)].text # "exam done"
        /\ said[Len(said)].text # "generation failed"

\* C17: a command whose total is below 10 or above 100 gets the range message
\* and nothing else: generate_exam is not called, so no word is sampled and no
\* exam made, and nothing is uploaded. A command without a total is run with
\* total 30, and one without any number with the targets 15, 15, 5, 5, 10.
C17_RangeCheckedBeforeAllocation ==
    Handled =>
        LET total == IF matches[1] = <<>> THEN 30 ELSE int(matches[1])
        IN  /\ (total < 10 \/ total > 100) =>
                   /\ said = <<RangeMessage>>
                   /\ req = NoRequest
                   /\ words = <<>>
                   /\ alloc = NoAlloc
                   /\ ~exam_result.success
                   /\ uploads = <<>>
            /\ matches[1] = <<>> => req.total_count = 30
            /\ matches = <<<<>>, <<>>, <<>>, <<>>, <<>>, <<>>>> =>
                   req = [total_count |-> 30, section1_count |-> 15,
                          section2_count |-> 15, section3_count |-> 5,
                          section4_count |-> 5, section5_count |-> 10]

\* The command asked for 101 questions and got the range message only.
C17_Witness ==
    /\ Handled
    /\ matches[1] = <<"1", "0", "1">>
    /\ said = <<RangeMessage>>
    /\ req = NoRequest
    /\ uploads = <<>>

\* C18: the synonyms get_random_words reads from the row add_to_sheet wrote
\* are the synonyms add_to_sheet was given, and the empty list is stored as
\* the empty string.
C18_SynonymsRoundTrip ==
    /\ (ret /\ word_info.synonyms = <<>>) => sheet[2][3] = <<>>
    /\ (ret /\ count = 1 /\ words_read) =>
           /\ Len(sample) = 1
           /\ sample[1].synonyms = word_info.synonyms

\* C21: the synonym words are the first s5 of the entries of
\* pool = section1 ++ section2 that have synonyms, in the order of the pool:
\* the j-th synonym word is the entry at the j-th position of the pool that
\* holds synonyms, and there are min(s5, number of such positions) of them.
C21_SynonymFiltered ==
    (ExamCalled /\ exam_result.success) =>
        LET pool == alloc.section1_words \o alloc.section2_words
            bearing == {i \in 1..Len(pool) : pool[i].synonyms # <<>>}
            nth(j) == CHOOSE i \in bearing :
                          Cardinality({k \in bearing : k <= i}) = j
            filtered == alloc.synonym_words
        IN  /\ Len(filtered) = Min(req.section5_count, Cardinality(bearing))
            /\ Len(filtered) <= req.section5_count
            /\ \A j \in 1..Len(filtered) :
                   /\ filtered[j] = pool[nth(j)]
                   /\ filtered[j].synonyms # <<>>

\* The pool starts with a word without synonyms and holds more words with
\* synonyms than s5: the filter skipped the first and the cut dropped the last.
C21_Witness ==
    /\ ExamCalled /\ exam_result.success
    /\ req.section5_count > 0
    /\ Len(alloc.synonym_words) = req.section5_count
    /\ LET pool == alloc.section1_words \o alloc.section2_words
       IN  /\ pool # <<>>
           /\ pool[1].synonyms = <<>>
           /\ Cardinality({i \in 1..Len(pool) : pool[i].synonyms # <<>>})
                  > req.section5_count

\* The items of section n of a document.
ItemsOf(content, n) == content.sections[n].items

\* C22: the exam and the answer key each show min(len(composition), 5)
\* composition items and min(len(context), 5) context items, whatever s3 and
\* s4 are, numbered from 1; and the answer key has as many sections as the
\* exam, each with as many items.
C22_FiveItemCap ==
    (ExamCalled /\ exam_result.success) =>
        LET exam == exam_result.exam_content
            answer == exam_result.answer_content
        IN  /\ \A doc \in {exam, answer} :
                   /\ Len(ItemsOf(doc, 3))
                          = Min(Len(alloc.composition_words), 5)
                   /\ Len(ItemsOf(doc, 4)) = Min(Len(alloc.context_words), 5)
                   /\ \A n \in {3, 4} : \A i \in 1..Len(ItemsOf(doc, n)) :
                          ItemsOf(doc, n)[i][1] = i
            /\ Len(answer.sections) = Len(exam.sections)
            /\ \A n \in 1..Len(exam.sections) :
                   Len(ItemsOf(answer, n)) = Len(ItemsOf(exam, n))

\* More than 5 composition words and more than 5 context words were chosen,
\* and 5 of each are shown.
C22_Witness ==
    /\ ExamCalled /\ exam_result.success
    /\ Len(alloc.composition_words) > 5
    /\ Len(alloc.context_words) > 5
    /\ Len(ItemsOf(exam_result.exam_content, 3)) = 5
    /\ Len(ItemsOf(exam_result.answer_content, 4)) = 5

\* The step is an iteration of the chunk loop: it appended a chunk and the
\* loop goes on.
LoopStep ==
    cpc = "loop" /\ cpc' = "loop" /\ Len(chunks') = Len(chunks) + 1

\* The offsets up to last at which a blank line ("\n\n") starts in s.
BreaksUpTo(s, last) ==
    {p \in 0..last : p + 2 <= Len(s) /\ s[p + 1] = NL /\ s[p + 2] = NL}

\* The step cut the remaining text at offset split_pos: the chunk appended is
\* the text before it, and the text that remains starts exactly there.
CutAt(split_pos) ==
    /\ chunks'[Len(chunks')] = [i \in 1..split_pos |-> full_text[i]]
    /\ full_text' =
           [i \in 1..(Len(full_text) - split_pos) |-> full_text[split_pos + i]]

\* C23 as stated: an iteration cuts at the last blank line that starts at or
\* before offset maxSize, and at offset maxSize when there is none.
C23_SplitAtLastBreakUpToMaxSize ==
    [][LoopStep =>
         LET breaks == BreaksUpTo(full_text, maxSize)
         IN  CutAt(IF breaks = {} THEN maxSize ELSE SetMax(breaks))]_vars

\* C23: an iteration cuts at the last blank line that lies within the first
\* maxSize characters of the remaining text, that is, starts at or before
\* offset maxSize - 2, and at offset maxSize when there is none; the text that
\* remains starts exactly at the cut.
C23_SplitAtLastBreakInWindow ==
    [][LoopStep =>
         LET breaks == BreaksUpTo(full_text, maxSize - 2)
         IN  CutAt(IF breaks = {} THEN maxSize ELSE SetMax(breaks))]_vars

\* The chunker returned after a hard split that fell between the two newlines
\* of a blank line starting at offset maxSize - 1, and a split at a blank line.
C23_Witness ==
    /\ cpc = "done"
    /\ \E i \in 1..(Len(chunks) - 1) :
           /\ Len(chunks[i]) = maxSize
           /\ chunks[i][maxSize] = NL
           /\ chunks[i + 1] # <<>>
           /\ chunks[i + 1][1] = NL
           /\ RFind(chunks[i], maxSize) = -1
    /\ \E i \in 1..(Len(chunks) - 1) :
           /\ Len(chunks[i]) < maxSize
           /\ Len(chunks[i]) > 0
           /\ StartsWithBlankLine(chunks[i + 1])

\* C24: no chunk is the empty string, neither one made by a split nor the
\* remainder appended last.
C24_NoEmptyChunk ==
    \A i \in 1..Len(chunks) : chunks[i] # <<>>

\* The mixed-content messages in the channel.
MixedPosted == SelectSeq(Channel(calls), LAMBDA m : m # CommentaryMessage)

\* A chat_postMessage call was made for the commentary.
CommentaryAttempted ==
    \E i \in 1..Len(calls) : calls[i].message = CommentaryMessage

\* The commentary is in the channel.
CommentaryPosted ==
    \E i \in 1..Len(Channel(calls)) : Channel(calls)[i] = CommentaryMessage

\* C25: the messages in the channel are the first of the mixed-content
\* messages, in order, then the commentary if it was posted. When the call
\* has returned: if not every mixed-content message was posted, those posted
\* before the failure are in the channel, mixed_content_sent is false with an
\* error recorded, and the commentary was attempted; each flag says whether
\* its own send went through.
C25_SendsReportedSeparately ==
    /\ MixedPosted = SubSeq(mixed_messages, 1, Len(MixedPosted))
    /\ results.mixed_content_sent => MixedPosted = mixed_messages
    /\ spc = "done" =>
           /\ MixedPosted # mixed_messages =>
                  /\ ~results.mixed_content_sent
                  /\ results.errors # <<>>
                  /\ CommentaryAttempted
           /\ results.mixed_content_sent <=> MixedPosted = mixed_messages
           /\ results.commentary_sent <=> CommentaryPosted

\* C26: the sample generate_exam works on is never longer than total_count,
\* so sample[s1 : total] and sample[s1 : k] are the same words, and section 2
\* is what generate_exam would make with the tail window sample[s1 : k] for
\* every total, the test total >= 30 removed.
C26_TailBranchesAgree ==
    ExamCalled =>
        /\ Len(words) <= req.total_count
        /\ exam_result.success =>
               LET s1 == req.section1_count
                   s2 == req.section2_count
                   tail == Slice(words, s1, Len(words))
                   extended == IF Len(tail) < s2
                               THEN tail \o Slice(words, 0, s2 - Len(tail))
                               ELSE tail
               IN  /\ Slice(words, s1, req.total_count) = tail
                   /\ alloc.section2_words = Slice(extended, 0, s2)

\* An exam of total >= 30 from a bank with more words than that: the sample
\* has exactly total words, and the tail window, cut at total, is not empty.
C26_Witness ==
    /\ ExamCalled /\ exam_result.success
    /\ req.total_count >= 30
    /\ Len(Bank(sheet)) > req.total_count
    /\ Len(words) = req.total_count
    /\ req.section1_count > 0
    /\ Len(TailBase(words, req.total_count, req.section1_count))
           = req.section2_count
    /\ alloc.section2_words
           = TailBase(words, req.total_count, req.section1_count)

====
